---- MODULE Spec2Model ----
(***************************************************************************)
(* A model of package irc (src/irc/irc.go): the IRC line parser            *)
(* ParseMessage and the synchronized connection Conn.                      *)
(*                                                                         *)
(* Strings are sequences of one-character strings.  Indices are Go's       *)
(* (0-based); every Go index or slice expression is paired with the range  *)
(* check the runtime performs, and a failed check is recorded as a panic.  *)
(***************************************************************************)
EXTENDS Integers, Sequences, FiniteSets, TLC

VARIABLES
    \* ---- parser harness (specification ParseSpec) ----
    l,          \* the input line handed to ParseMessage
    gram,       \* the wire-grammar components l was built from (wire = FALSE: a raw string)
    msg,        \* the Message returned by ParseMessage(l)
    msg2,       \* the Message returned by parsing the re-serialized msg
    ppc,        \* "start" -> "parsed" -> "reparsed"
    \* ---- connection (specification Spec) ----
    pc,         \* per goroutine: position inside the Conn method it is running
    mu,         \* the two mutexes of the Conn: [rl |-> holder, wl |-> holder]
    call,       \* per goroutine: the call in progress (its arguments and locals)
    ret,        \* what the call that finished last returned
    rdbuf,      \* bufio.Reader: bytes read from the stream and not yet consumed
    rderr,      \* bufio.Reader: the stream error kept for the next read (b.err)
    incoming,   \* stream: bytes that arrived from the peer and were not read yet
    sent,       \* history: every byte the peer ever sent, in order
    wire,       \* stream: the bytes written so far, each tagged with its Write call
    wcalls,     \* history: the byte sequences handed to rwc.Write, in call order
    closes,     \* stream: how many times rwc.Close was called
    ncalls,     \* number of Conn method calls issued so far
    got,        \* history: the lines of the successful ReadMsg calls, in lock order
    drops       \* history: stream offsets at which a failed ReadMsg dropped a fragment

pvars == <<l, gram, msg, msg2, ppc>>
cvars == <<pc, mu, call, ret, rdbuf, rderr, incoming, sent, wire, wcalls, closes,
           ncalls, got, drops>>
vars == <<pvars, cvars>>

(***************************************************************************)
(* Bounds                                                                  *)
(***************************************************************************)
MaxLen == 5         \* longest raw input line of ParseSpec
MaxMiddles == 2     \* most middle parameters of a grammar-built line
MaxTrail == 2       \* longest trailing of a grammar-built line
NumProcs == 2       \* goroutines sharing the Conn
MaxCalls == 2       \* ReadMsg, Write and Send calls issued in one run
MaxCloses == 2      \* Close calls issued in one run
MaxStream == 2      \* bytes the peer sends in one run

Char == {":", " ", "!", "@", "a", "\r", "\n"}

Str(n) == UNION {[1..k -> Char] : k \in 0..n}

(***************************************************************************)
(* Go string primitives                                                    *)
(***************************************************************************)
\* s[i:] and s[:i], with the runtime's range check
SliceOK(s, i) == 0 <= i /\ i <= Len(s)
From(s, i) == SubSeq(s, i + 1, Len(s))
To(s, i) == SubSeq(s, 1, i)

\* strings.Index(s, sep): 0-based index of the first occurrence of sep, or -1
FirstOrNone(hits) ==
    IF hits = {} THEN -1 ELSE CHOOSE i \in hits : \A j \in hits : i <= j

Index(s, sep) ==
    FirstOrNone({i \in 0..(Len(s) - Len(sep)) : SubSeq(s, i + 1, i + Len(sep)) = sep})

\* strings.Split(s, sep) for a non-empty sep: always at least one element
RECURSIVE Split(_, _)
SplitAt(s, sep, i) ==
    IF i < 0 THEN <<s>>
    ELSE <<To(s, i)>> \o Split(From(s, i + Len(sep)), sep)

Split(s, sep) == SplitAt(s, sep, Index(s, sep))

\* strings.SplitN(s, sep, 2)
SplitN2At(s, sep, i) ==
    IF i < 0 THEN <<s>> ELSE <<To(s, i), From(s, i + Len(sep))>>

SplitN2(s, sep) == SplitN2At(s, sep, Index(s, sep))

(***************************************************************************)
(* ParseMessage                                                            *)
(***************************************************************************)
\* new(Prefix): the zero value
NewPrefix == [Name |-> <<>>, User |-> <<>>, Host |-> <<>>]

\* the closure split2
split2Of(parts) ==
    IF Len(parts) = 2 THEN <<parts[1], parts[2]>> ELSE <<parts[1], <<>>>>

split2(s, sep) == split2Of(SplitN2(s, sep))

\* the closure parsePrefix; panic records a failed index or slice range check
PrefixPanic(s) == [prefix |-> NewPrefix, tail |-> s, panic |-> TRUE]

\* if user > 0 { prefix.User = head[user+1:]; head = head[:user] }
\* prefix.Name = head; return prefix, tail
prefixUser(head, user, host, tail) ==
    IF user > 0
    THEN IF SliceOK(head, user + 1) /\ SliceOK(head, user)
         THEN [prefix |-> [Name |-> To(head, user), User |-> From(head, user + 1),
                           Host |-> host],
               tail |-> tail, panic |-> FALSE]
         ELSE PrefixPanic(tail)
    ELSE [prefix |-> [Name |-> head, User |-> <<>>, Host |-> host],
          tail |-> tail, panic |-> FALSE]

\* if host > user { prefix.Host = head[host+1:]; head = head[:host] }
prefixHost(head, user, host, tail) ==
    IF host > user
    THEN IF SliceOK(head, host + 1) /\ SliceOK(head, host)
         THEN prefixUser(To(head, host), user, From(head, host + 1), tail)
         ELSE PrefixPanic(tail)
    ELSE prefixUser(head, user, <<>>, tail)

\* user := strings.Index(head, "!"); host := strings.Index(head, "@")
prefixOf(head, tail) ==
    prefixHost(head, Index(head, <<"!">>), Index(head, <<"@">>), tail)

prefixNameOnly(head, tail) ==
    [prefix |-> [NewPrefix EXCEPT !.Name = head], tail |-> tail, panic |-> FALSE]

prefixSplit(sp) == prefixOf(sp[1], sp[2])

prefixSplitNameOnly(sp) == prefixNameOnly(sp[1], sp[2])

parsePrefix_noEmptyCheck(s) ==
    IF Len(s) = 0
    THEN PrefixPanic(s)
    ELSE IF s[1] # ":"
    THEN [prefix |-> NewPrefix, tail |-> s, panic |-> FALSE]
    ELSE prefixSplit(split2(From(s, 1), <<" ">>))

parsePrefix_noColonTest(s) ==
    IF s = <<>>
    THEN [prefix |-> NewPrefix, tail |-> s, panic |-> FALSE]
    ELSE prefixSplitNameOnly(split2(From(s, 1), <<" ">>))

parsePrefix(s) ==
    IF s = <<>> \/ s[1] # ":"
    THEN [prefix |-> NewPrefix, tail |-> s, panic |-> FALSE]
    ELSE prefixSplit(split2(From(s, 1), <<" ">>))

\* the closure parseCommand
commandOf(sp) == [res |-> sp[1], tail |-> sp[2]]

parseCommand(s) == commandOf(split2(s, <<" ">>))

\* the closure parseParams; resNil tells a nil slice from an empty one
paramsOf(sp) == [res |-> Split(sp[1], <<" ">>), resNil |-> FALSE, tail |-> sp[2]]

parseParams_noColonTest(s) ==
    IF s = <<>>
    THEN [res |-> <<>>, resNil |-> FALSE, tail |-> s]
    ELSE paramsOf(split2(s, <<" ", ":">>))

parseParams(s) ==
    IF s = <<>> \/ s[1] = ":"
    THEN [res |-> <<>>, resNil |-> FALSE, tail |-> s]
    ELSE paramsOf(split2(s, <<" ", ":">>))

\* msg := &Message{Raw: l}: every other field is its zero value (Params nil)
NewMessage(raw) ==
    [Command |-> <<>>, Params |-> <<>>, ParamsNil |-> TRUE, Prefix |-> NewPrefix,
     Raw |-> raw, Txt |-> <<>>, panic |-> FALSE]

\* if l != "" && l[0] == ':' { l = l[1:] }; msg.Txt = l
txtOf(t) == IF t # <<>> /\ t[1] = ":" THEN From(t, 1) ELSE t

\* msg.Params, l = parseParams(l)
withParams(raw, prefix, command, a) ==
    [Command |-> command, Params |-> a.res, ParamsNil |-> a.resNil,
     Prefix |-> prefix, Raw |-> raw, Txt |-> txtOf(a.tail), panic |-> FALSE]

\* msg.Command, l = parseCommand(l)
withCommand(raw, prefix, c) == withParams(raw, prefix, c.res, parseParams(c.tail))

\* msg.Prefix, l = parsePrefix(l)
withPrefix(raw, p) ==
    IF p.panic
    THEN [NewMessage(raw) EXCEPT !.panic = TRUE]
    ELSE withCommand(raw, p.prefix, parseCommand(p.tail))

\* s without a final LF, and without the CR before it
TrimEOL(s) ==
    IF s # <<>> /\ s[Len(s)] = "\n"
    THEN IF Len(s) >= 2 /\ s[Len(s) - 1] = "\r" THEN To(s, Len(s) - 2)
         ELSE To(s, Len(s) - 1)
    ELSE s

ParseMessage_trimsLine(s) == withPrefix(TrimEOL(s), parsePrefix(TrimEOL(s)))

ParseMessage(s) == withPrefix(s, parsePrefix(s))

(***************************************************************************)
(* Parser harness: the lines ParseMessage is applied to                    *)
(***************************************************************************)
NameTok == {<<"n">>, <<":", "n">>}
UserTok == {<<>>, <<"u">>}                  \* <<>>: the "!" user part is omitted
HostTok == {<<>>, <<"h">>, <<"h", ":">>}    \* <<>>: the "@" host part is omitted
CommandTok == {<<"C">>, <<":">>, <<"1", "!">>}
MiddleTok == {<<"m">>, <<"#", ":">>, <<"@">>}
TrailChar == {":", " ", "t"}

RECURSIVE Join(_, _)
Join(ss, sep) ==
    IF ss = <<>> THEN <<>>
    ELSE IF Len(ss) = 1 THEN ss[1]
    ELSE ss[1] \o sep \o Join(Tail(ss), sep)

RawGram ==
    [wire |-> FALSE, name |-> <<>>, user |-> <<>>, host |-> <<>>, command |-> <<>>,
     middles |-> <<>>, hasTrailing |-> FALSE, trailing |-> <<>>]

WireGrams ==
    [wire : {TRUE}, name : NameTok, user : UserTok, host : HostTok,
     command : CommandTok,
     middles : UNION {[1..k -> MiddleTok] : k \in 0..MaxMiddles},
     hasTrailing : {TRUE},
     trailing : UNION {[1..k -> TrailChar] : k \in 0..MaxTrail}]
    \cup
    [wire : {TRUE}, name : NameTok, user : UserTok, host : HostTok,
     command : CommandTok,
     middles : UNION {[1..k -> MiddleTok] : k \in 0..MaxMiddles},
     hasTrailing : {FALSE}, trailing : {<<>>}]

\* ":" name ["!" user] ["@" host] " " command {" " middle} [" :" trailing]
WireLine(g) ==
    <<":">> \o g.name
    \o (IF g.user # <<>> THEN <<"!">> \o g.user ELSE <<>>)
    \o (IF g.host # <<>> THEN <<"@">> \o g.host ELSE <<>>)
    \o <<" ">> \o g.command
    \o (IF g.middles # <<>> THEN <<" ">> \o Join(g.middles, <<" ">>) ELSE <<>>)
    \o (IF g.hasTrailing THEN <<" ", ":">> \o g.trailing ELSE <<>>)

\* [":" name ["!" user] ["@" host] " "] command [" " params] [" :" text]
Serialize(m) ==
    (IF m.Prefix # NewPrefix
     THEN <<":">> \o m.Prefix.Name
          \o (IF m.Prefix.User # <<>> THEN <<"!">> \o m.Prefix.User ELSE <<>>)
          \o (IF m.Prefix.Host # <<>> THEN <<"@">> \o m.Prefix.Host ELSE <<>>)
          \o <<" ">>
     ELSE <<>>)
    \o m.Command
    \o (IF m.Params # <<>> THEN <<" ">> \o Join(m.Params, <<" ">>) ELSE <<>>)
    \o (IF m.Txt # <<>> THEN <<" ", ":">> \o m.Txt ELSE <<>>)

PInit ==
    /\ \/ l \in Str(MaxLen) /\ gram = RawGram
       \/ gram \in WireGrams /\ l = WireLine(gram)
    /\ msg = NewMessage(<<>>)
    /\ msg2 = NewMessage(<<>>)
    /\ ppc = "start"

Parse ==
    /\ ppc = "start"
    /\ msg' = ParseMessage(l)
    /\ ppc' = "parsed"
    /\ UNCHANGED <<l, gram, msg2>>

Reparse ==
    /\ ppc = "parsed"
    /\ ~msg.panic
    /\ msg2' = ParseMessage(Serialize(msg))
    /\ ppc' = "reparsed"
    /\ UNCHANGED <<l, gram, msg>>

(***************************************************************************)
(* Conn: the connection and the stream (io.ReadWriteCloser) it wraps       *)
(***************************************************************************)
Procs == 1..NumProcs
StreamByte == {"a", "\n"}
WriteArgs == {<<"x", "y">>}
SendArgs == {<<"a">>}
CRLF == <<"\r", "\n">>

NoCall == [op |-> "none", data |-> <<>>, left |-> <<>>, id |-> 0, afterClose |-> FALSE]
NoRet ==
    [op |-> "none", ok |-> FALSE, err |-> "nil", n |-> 0, msg |-> NewMessage(<<>>),
     afterClose |-> FALSE]

\* NewConn(rwc): reader: bufio.NewReader(rwc), both mutexes unlocked
CInit ==
    /\ pc = [p \in Procs |-> "idle"]
    /\ mu = [rl |-> 0, wl |-> 0]
    /\ call = [p \in Procs |-> NoCall]
    /\ ret = NoRet
    /\ rdbuf = <<>>
    /\ rderr = "nil"
    /\ incoming = <<>>
    /\ sent = <<>>
    /\ wire = <<>>
    /\ wcalls = <<>>
    /\ closes = 0
    /\ ncalls = 0
    /\ got = <<>>
    /\ drops = {}

\* the parser harness is at rest while the connection runs
PIdle ==
    /\ l = <<>>
    /\ gram = RawGram
    /\ msg = NewMessage(<<>>)
    /\ msg2 = NewMessage(<<>>)
    /\ ppc = "off"

\* the mutex each method takes
ReadMutex == "rl"
WriteMutex_shared == "rl"
WriteMutex == "wl"

\* offset in the stream of the first byte bufio has not consumed yet
Consumed == Len(sent) - Len(incoming) - Len(rdbuf)

\* ---- the peer and the network ----
PeerSend ==
    /\ closes = 0
    /\ Len(sent) < MaxStream
    /\ \E b \in StreamByte :
          /\ incoming' = Append(incoming, b)
          /\ sent' = Append(sent, b)
    /\ UNCHANGED <<pvars, pc, mu, call, ret, rdbuf, rderr, wire, wcalls, closes,
                   ncalls, got, drops>>

\* ---- ReadMsg ----
ReadMsgCall(p) ==
    /\ pc[p] = "idle"
    /\ ncalls < MaxCalls
    /\ ncalls' = ncalls + 1
    /\ pc' = [pc EXCEPT ![p] = "rLock"]
    /\ call' = [call EXCEPT ![p] = [NoCall EXCEPT !.op = "ReadMsg",
                                                  !.afterClose = closes > 0]]
    /\ UNCHANGED <<pvars, mu, ret, rdbuf, rderr, incoming, sent, wire, wcalls,
                   closes, got, drops>>

\* c.rl.Lock()
ReadMsgLock_nolock(p) ==
    /\ pc[p] = "rLock"
    /\ pc' = [pc EXCEPT ![p] = "rRead"]
    /\ UNCHANGED <<pvars, mu, call, ret, rdbuf, rderr, incoming, sent, wire, wcalls,
                   closes, ncalls, got, drops>>

ReadMsgLock(p) ==
    /\ pc[p] = "rLock"
    /\ mu[ReadMutex] = 0
    /\ mu' = [mu EXCEPT ![ReadMutex] = p]
    /\ pc' = [pc EXCEPT ![p] = "rRead"]
    /\ UNCHANGED <<pvars, call, ret, rdbuf, rderr, incoming, sent, wire, wcalls,
                   closes, ncalls, got, drops>>

\* c.reader.ReadString: the buffer holds no line feed and no kept error, so the
\* reader reads the stream once (bufio fill); it blocks while the stream has
\* nothing to report
ReadStringFill(p) ==
    /\ pc[p] = "rRead"
    /\ Index(rdbuf, <<"\n">>) < 0
    /\ rderr = "nil"
    /\ \/ /\ closes > 0                        \* read of a closed stream
          /\ rderr' = "closed"
          /\ UNCHANGED <<rdbuf, incoming>>
       \/ /\ closes = 0                        \* the stream hands over a chunk
          /\ \E k \in 1..Len(incoming) :
                /\ rdbuf' = rdbuf \o To(incoming, k)
                /\ incoming' = From(incoming, k)
          /\ UNCHANGED rderr
       \/ /\ closes = 0                        \* the stream fails or ends
          /\ rderr' = "failed"
          /\ UNCHANGED <<rdbuf, incoming>>
    /\ UNCHANGED <<pvars, pc, mu, call, ret, sent, wire, wcalls, closes, ncalls,
                   got, drops>>

\* ReadString found a line feed: return ParseMessage(l), nil; deferred c.rl.Unlock()
ReadMsgOk_wholeBuffer(p) ==
    /\ pc[p] = "rRead"
    /\ Index(rdbuf, <<"\n">>) >= 0
    /\ rdbuf' = <<>>
    /\ ret' = [NoRet EXCEPT !.op = "ReadMsg", !.ok = TRUE,
                            !.msg = ParseMessage(rdbuf),
                            !.afterClose = call[p].afterClose]
    /\ got' = Append(got, [line |-> rdbuf, at |-> Consumed])
    /\ mu' = [mu EXCEPT ![ReadMutex] = 0]
    /\ pc' = [pc EXCEPT ![p] = "idle"]
    /\ call' = [call EXCEPT ![p] = NoCall]
    /\ UNCHANGED <<pvars, rderr, incoming, sent, wire, wcalls, closes, ncalls,
                   drops>>

ReadMsgOk(p) ==
    /\ pc[p] = "rRead"
    /\ Index(rdbuf, <<"\n">>) >= 0
    /\ LET i == Index(rdbuf, <<"\n">>)
           line == To(rdbuf, i + 1)
       IN  /\ rdbuf' = From(rdbuf, i + 1)
           /\ ret' = [NoRet EXCEPT !.op = "ReadMsg", !.ok = TRUE,
                                            !.msg = ParseMessage(line),
                                            !.afterClose = call[p].afterClose]
           /\ got' = Append(got, [line |-> line, at |-> Consumed])
    /\ mu' = [mu EXCEPT ![ReadMutex] = 0]
    /\ pc' = [pc EXCEPT ![p] = "idle"]
    /\ call' = [call EXCEPT ![p] = NoCall]
    /\ UNCHANGED <<pvars, rderr, incoming, sent, wire, wcalls, closes, ncalls,
                   drops>>

\* ReadString returns the kept error with what it had read: return nil, err;
\* deferred c.rl.Unlock()
ReadMsgErr_closes(p) ==
    /\ pc[p] = "rRead"
    /\ Index(rdbuf, <<"\n">>) < 0
    /\ rderr # "nil"
    /\ drops' = IF rdbuf # <<>> THEN drops \cup {Consumed + Len(rdbuf)} ELSE drops
    /\ rdbuf' = <<>>
    /\ rderr' = "nil"
    /\ closes' = closes + 1
    /\ ret' = [NoRet EXCEPT !.op = "ReadMsg", !.err = rderr,
                            !.afterClose = call[p].afterClose]
    /\ mu' = [mu EXCEPT ![ReadMutex] = 0]
    /\ pc' = [pc EXCEPT ![p] = "idle"]
    /\ call' = [call EXCEPT ![p] = NoCall]
    /\ UNCHANGED <<pvars, incoming, sent, wire, wcalls, ncalls, got>>

ReadMsgErr_keepsLock(p) ==
    /\ pc[p] = "rRead"
    /\ Index(rdbuf, <<"\n">>) < 0
    /\ rderr # "nil"
    /\ drops' = IF rdbuf # <<>> THEN drops \cup {Consumed + Len(rdbuf)} ELSE drops
    /\ rdbuf' = <<>>
    /\ rderr' = "nil"
    /\ ret' = [NoRet EXCEPT !.op = "ReadMsg", !.err = rderr,
                            !.afterClose = call[p].afterClose]
    /\ pc' = [pc EXCEPT ![p] = "idle"]
    /\ call' = [call EXCEPT ![p] = NoCall]
    /\ UNCHANGED <<pvars, mu, incoming, sent, wire, wcalls, closes, ncalls, got>>

ReadMsgErr_keepsFragment(p) ==
    /\ pc[p] = "rRead"
    /\ Index(rdbuf, <<"\n">>) < 0
    /\ rderr # "nil"
    /\ drops' = IF rdbuf # <<>> THEN drops \cup {Consumed + Len(rdbuf)} ELSE drops
    /\ rderr' = "nil"
    /\ ret' = [NoRet EXCEPT !.op = "ReadMsg", !.err = rderr,
                            !.afterClose = call[p].afterClose]
    /\ mu' = [mu EXCEPT ![ReadMutex] = 0]
    /\ pc' = [pc EXCEPT ![p] = "idle"]
    /\ call' = [call EXCEPT ![p] = NoCall]
    /\ UNCHANGED <<pvars, rdbuf, incoming, sent, wire, wcalls, closes, ncalls, got>>

ReadMsgErr(p) ==
    /\ pc[p] = "rRead"
    /\ Index(rdbuf, <<"\n">>) < 0
    /\ rderr # "nil"
    /\ drops' = IF rdbuf # <<>> THEN drops \cup {Consumed + Len(rdbuf)} ELSE drops
    /\ rdbuf' = <<>>
    /\ rderr' = "nil"
    /\ ret' = [NoRet EXCEPT !.op = "ReadMsg", !.err = rderr,
                                                !.afterClose = call[p].afterClose]
    /\ mu' = [mu EXCEPT ![ReadMutex] = 0]
    /\ pc' = [pc EXCEPT ![p] = "idle"]
    /\ call' = [call EXCEPT ![p] = NoCall]
    /\ UNCHANGED <<pvars, incoming, sent, wire, wcalls, closes, ncalls, got>>

\* ---- Write and Send ----
WriteBegin(p, op, data) ==
    /\ pc[p] = "idle"
    /\ ncalls < MaxCalls
    /\ ncalls' = ncalls + 1
    /\ pc' = [pc EXCEPT ![p] = "wLock"]
    /\ call' = [call EXCEPT ![p] = [NoCall EXCEPT !.op = op, !.data = data,
                                                  !.afterClose = closes > 0]]
    /\ UNCHANGED <<pvars, mu, ret, rdbuf, rderr, incoming, sent, wire, wcalls,
                   closes, got, drops>>

WriteCall(p) == \E m \in WriteArgs : WriteBegin(p, "Write", m)

\* c.Write([]byte(l + "\r\n"))
SendCall_lfOnly(p) == \E text \in SendArgs : WriteBegin(p, "Send", text \o <<"\n">>)

SendCall(p) == \E text \in SendArgs : WriteBegin(p, "Send", text \o CRLF)

\* c.wl.Lock(), then c.rwc.Write(msg) is entered with the whole of msg
WriteLock_nolock(p) ==
    /\ pc[p] = "wLock"
    /\ wcalls' = Append(wcalls, call[p].data)
    /\ call' = [call EXCEPT ![p].left = call[p].data, ![p].id = Len(wcalls) + 1]
    /\ pc' = [pc EXCEPT ![p] = "wWrite"]
    /\ UNCHANGED <<pvars, mu, ret, rdbuf, rderr, incoming, sent, wire, closes,
                   ncalls, got, drops>>

WriteLock(p) ==
    /\ pc[p] = "wLock"
    /\ mu[WriteMutex] = 0
    /\ mu' = [mu EXCEPT ![WriteMutex] = p]
    /\ wcalls' = Append(wcalls, call[p].data)
    /\ call' = [call EXCEPT ![p].left = call[p].data, ![p].id = Len(wcalls) + 1]
    /\ pc' = [pc EXCEPT ![p] = "wWrite"]
    /\ UNCHANGED <<pvars, ret, rdbuf, rderr, incoming, sent, wire, closes, ncalls,
                   got, drops>>

\* inside rwc.Write: the stream puts the next byte of the call on the wire
StreamWriteByte(p) ==
    /\ pc[p] = "wWrite"
    /\ closes = 0
    /\ call[p].left # <<>>
    /\ wire' = Append(wire, [id |-> call[p].id, b |-> Head(call[p].left)])
    /\ call' = [call EXCEPT ![p].left = Tail(call[p].left)]
    /\ UNCHANGED <<pvars, pc, mu, ret, rdbuf, rderr, incoming, sent, wcalls, closes,
                   ncalls, got, drops>>

\* rwc.Write returned (n, err): return it; deferred c.wl.Unlock()
WriteReturn(p, ok, err) ==
    /\ ret' = [NoRet EXCEPT !.op = call[p].op, !.ok = ok,
                                                !.err = err,
                                                !.n = Len(call[p].data) - Len(call[p].left),
                                                !.afterClose = call[p].afterClose]
    /\ mu' = [mu EXCEPT ![WriteMutex] = 0]
    /\ pc' = [pc EXCEPT ![p] = "idle"]
    /\ call' = [call EXCEPT ![p] = NoCall]
    /\ UNCHANGED <<pvars, rdbuf, rderr, incoming, sent, wire, wcalls, closes, ncalls,
                   got, drops>>

WriteOk(p) ==
    /\ pc[p] = "wWrite"
    /\ call[p].left = <<>>
    /\ WriteReturn(p, TRUE, "nil")

\* the stream refuses the rest: it is closed, or the write fails
WriteErr(p) ==
    /\ pc[p] = "wWrite"
    /\ call[p].left # <<>>
    /\ WriteReturn(p, FALSE, IF closes > 0 THEN "closed" ELSE "broken")

\* ---- Close ----
Close_waitsForLocks(p) ==
    /\ pc[p] = "idle"
    /\ closes < MaxCloses
    /\ mu[ReadMutex] = 0 /\ mu[WriteMutex] = 0
    /\ closes' = closes + 1
    /\ ret' = [NoRet EXCEPT !.op = "Close", !.ok = closes = 0,
                            !.err = IF closes = 0 THEN "nil" ELSE "closed",
                            !.afterClose = closes > 0]
    /\ UNCHANGED <<pvars, pc, mu, call, rdbuf, rderr, incoming, sent, wire, wcalls,
                   ncalls, got, drops>>

Close(p) ==
    /\ pc[p] = "idle"
    /\ closes < MaxCloses
    /\ closes' = closes + 1
    /\ ret' = [NoRet EXCEPT !.op = "Close", !.ok = closes = 0,
                                                !.err = IF closes = 0 THEN "nil"
                                                        ELSE "closed",
                                                !.afterClose = closes > 0]
    /\ UNCHANGED <<pvars, pc, mu, call, rdbuf, rderr, incoming, sent, wire, wcalls,
                   ncalls, got, drops>>

CNext ==
    \/ PeerSend
    \/ \E p \in Procs : ReadMsgCall(p)
    \/ \E p \in Procs : ReadMsgLock(p)
    \/ \E p \in Procs : ReadStringFill(p)
    \/ \E p \in Procs : ReadMsgOk(p)
    \/ \E p \in Procs : ReadMsgErr(p)
    \/ \E p \in Procs : WriteCall(p)
    \/ \E p \in Procs : SendCall(p)
    \/ \E p \in Procs : WriteLock(p)
    \/ \E p \in Procs : StreamWriteByte(p)
    \/ \E p \in Procs : WriteOk(p)
    \/ \E p \in Procs : WriteErr(p)
    \/ \E p \in Procs : Close(p)

PNext ==
    \/ Parse /\ UNCHANGED cvars
    \/ Reparse /\ UNCHANGED cvars

Init == PIdle /\ CInit
Next == CNext
Spec == Init /\ [][Next]_vars

\* a goroutine that can take its next step takes it: a free mutex is acquired,
\* a stream call returns (bytes or an error), a finished call returns
CFair ==
    \A p \in Procs :
        /\ WF_vars(ReadMsgLock(p))
        /\ WF_vars(ReadStringFill(p) \/ ReadMsgOk(p) \/ ReadMsgErr(p))
        /\ WF_vars(WriteLock(p))
        /\ WF_vars(StreamWriteByte(p) \/ WriteOk(p) \/ WriteErr(p))

FairSpec == Spec /\ CFair

ParseInit == PInit /\ CInit
ParseNext == PNext
ParseSpec == ParseInit /\ [][ParseNext]_vars

(***************************************************************************)
(* Properties                                                              *)
(***************************************************************************)
LF == <<"\n">>
InStreamWrite == {p \in Procs : pc[p] = "wWrite"}
InReadString == {p \in Procs : pc[p] = "rRead"}

\* the bytes of Write call id that are on the wire, in wire order
RECURSIVE BytesOf(_, _)
BytesOf(w, id) ==
    IF w = <<>> THEN <<>>
    ELSE (IF Head(w).id = id THEN <<Head(w).b>> ELSE <<>>) \o BytesOf(Tail(w), id)

IsPrefix(a, b) == Len(a) <= Len(b) /\ a = To(b, Len(a))

\* C1: the bytes of two Write/Send calls are never interleaved on the stream: at
\* most one goroutine is inside rwc.Write, the bytes of one call are contiguous
\* on the wire, and they are the bytes the call was given, in order.
C1_WritesNeverInterleave ==
    /\ Cardinality(InStreamWrite) <= 1
    /\ \A i, j \in 1..Len(wire) :
          (i < j /\ wire[i].id = wire[j].id)
             => \A k \in i..j : wire[k].id = wire[i].id
    /\ \A id \in 1..Len(wcalls) : IsPrefix(BytesOf(wire, id), wcalls[id])
    /\ \A p \in InStreamWrite :
          /\ wcalls[call[p].id] = call[p].data
          /\ BytesOf(wire, call[p].id) \o call[p].left = call[p].data

\* one call is writing its second byte while another caller waits for the lock
C1_Witness ==
    \E p, q \in Procs :
        /\ pc[p] = "wWrite" /\ pc[q] = "wLock"
        /\ Len(call[p].left) < Len(call[p].data)
        /\ call[p].left # <<>>

\* C2: a ReadMsg, Write or Send issued after Close() returned never succeeds.
C2_NoSuccessAfterClose ==
    (ret.op \in {"ReadMsg", "Write", "Send"} /\ ret.afterClose) => ~ret.ok

\* C3: ParseMessage never fails a range check and never leaves Params nil.
C3_ParseTotal ==
    /\ ppc \in {"parsed", "reparsed"} => (~msg.panic /\ ~msg.ParamsNil)
    /\ ppc = "reparsed" => (~msg2.panic /\ ~msg2.ParamsNil)

\* the empty line and the lone ":" have been parsed
C3_Witness ==
    /\ ppc = "parsed"
    /\ l \in {<<>>, <<":">>}
    /\ msg.Params = <<>> /\ msg.Raw = l

\* C4: parsing the re-serialized Message gives back its command, params, prefix
\* and text.
C4_RoundTrip ==
    ppc = "reparsed" =>
        /\ msg2.Command = msg.Command
        /\ msg2.Params = msg.Params
        /\ msg2.Prefix = msg.Prefix
        /\ msg2.Txt = msg.Txt

\* a Message is one complete line of the stream: the bytes from offset at on,
\* up to and including the first line feed
IsSegment(g) ==
    /\ g.at + Len(g.line) <= Len(sent)
    /\ g.line = SubSeq(sent, g.at + 1, g.at + Len(g.line))
    /\ Index(g.line, LF) = Len(g.line) - 1
StartsLine(g) == g.at = 0 \/ sent[g.at] = "\n"

C6_ReadWriteIndependent ==
    /\ \A p \in Procs :
          /\ (pc[p] = "wLock" /\ InStreamWrite = {}) => ENABLED WriteLock(p)
          /\ (pc[p] = "rLock" /\ InReadString = {}) => ENABLED ReadMsgLock(p)
          /\ pc[p] = "wWrite" => mu.rl # p
          /\ pc[p] = "rRead" => mu.wl # p

\* a Write is inside the stream while a ReadMsg is blocked holding the read lock
C6_Witness ==
    \E p, q \in Procs :
        /\ pc[p] = "rRead" /\ mu.rl = p /\ incoming = <<>> /\ rdbuf = <<>>
        /\ pc[q] = "wWrite" /\ mu.wl = q /\ call[q].left = <<>>

\* C7: a line built by the wire grammar parses into exactly its components.
C7_WireGrammar ==
    (gram.wire /\ ppc = "parsed") =>
        /\ msg.Prefix = [Name |-> gram.name, User |-> gram.user, Host |-> gram.host]
        /\ msg.Command = gram.command
        /\ msg.Params = gram.middles
        /\ msg.Txt = gram.trailing

\* C8: a line that does not start with ":" has the zero Prefix, and command,
\* params and text come from the whole line; a single token is the command.
C8_NoPrefix ==
    (ppc = "parsed" /\ (l = <<>> \/ l[1] # ":")) =>
        LET sp == Index(l, <<" ">>)
            rest == IF sp < 0 THEN <<>> ELSE From(l, sp + 1)
        IN  /\ msg.Prefix = NewPrefix
            /\ msg.Command = (IF sp < 0 THEN l ELSE To(l, sp))
            /\ msg.Params = parseParams(rest).res
            /\ msg.Txt = (LET t == parseParams(rest).tail
                          IN  IF t # <<>> /\ t[1] = ":" THEN From(t, 1) ELSE t)
            /\ sp < 0 => (msg.Command = l /\ msg.Params = <<>> /\ msg.Txt = <<>>)

\* a line without ":" that has a command, a parameter and a text
C8_Witness ==
    /\ ppc = "parsed"
    /\ l # <<>> /\ l[1] # ":"
    /\ msg.Command # <<>> /\ msg.Params # <<>> /\ msg.Txt # <<>>

\* the prefix body of a line: what stands between the leading ":" and the first
\* space
Body(s) == IF s # <<>> /\ s[1] = ":" THEN split2(From(s, 1), <<" ">>)[1] ELSE <<>>

\* C9: user is non-empty only if the body has a "!" before any "@", host only
\* if the body has an "@".
C9_UserHostPresence ==
    ppc = "parsed" =>
        LET b == Body(l)
            bang == Index(b, <<"!">>)
            at == Index(b, <<"@">>)
        IN  /\ msg.Prefix.User # <<>> => (bang >= 0 /\ (at < 0 \/ bang < at))
            /\ msg.Prefix.Host # <<>> => at >= 0

\* C10: a body with "!" and no "@" splits at the first "!" into name and user;
\* a body with "@" and no "!" splits at the first "@" into name and host.
C10_SingleSeparator ==
    ppc = "parsed" =>
        LET b == Body(l)
            bang == Index(b, <<"!">>)
            at == Index(b, <<"@">>)
        IN  /\ (bang >= 0 /\ at < 0) =>
                  msg.Prefix = [Name |-> To(b, bang), User |-> From(b, bang + 1),
                                Host |-> <<>>]
            /\ (at >= 0 /\ bang < 0) =>
                  msg.Prefix = [Name |-> To(b, at), User |-> <<>>,
                                Host |-> From(b, at + 1)]

\* C11: only Close() closes the stream.  A failing ReadMsg, Write or Send ends
\* that call alone: it returns the error the stream gave, unchanged, touches the
\* stream no further (no retry, no close), and a later call still goes to the
\* stream.
C11_FailureKeepsState ==
    [][/\ closes' # closes => (ret'.op = "Close" /\ closes' = closes + 1 /\ pc' = pc)
       /\ \A p \in Procs :
             (pc[p] = "rRead" /\ pc'[p] = "idle" /\ ~ret'.ok) =>
                 /\ rderr # "nil" /\ ret'.err = rderr /\ rderr' = "nil"
                 /\ incoming' = incoming /\ closes' = closes
       /\ \A p \in Procs :
             (pc[p] = "wWrite" /\ pc'[p] = "idle" /\ ~ret'.ok) =>
                 /\ ret'.err # "nil"
                 /\ wire' = wire /\ wcalls' = wcalls /\ closes' = closes
       /\ rderr # "nil" => Len(incoming') >= Len(incoming)
      ]_vars

\* after a ReadMsg failed on the open stream, a later ReadMsg has read new bytes
\* from it
C11_Witness ==
    /\ ret.op = "ReadMsg" /\ ~ret.ok /\ ret.err = "failed"
    /\ closes = 0
    /\ \E p \in Procs : pc[p] = "rRead" /\ rdbuf # <<>>

\* the lines Send can hand to the stream: its text, then CR, then LF
SendLines == {text \o <<"\r", "\n">> : text \in SendArgs}

\* C12: Send(text) hands the stream exactly text followed by CR LF, in one
\* stream write made while the caller holds the write lock, and returns that
\* write's error; every call makes at most one stream write, so no line is
\* split over two.
C12_SendOneWrite ==
    /\ \A p \in Procs :
          (call[p].op = "Send" /\ pc[p] = "wWrite") =>
              /\ mu["wl"] = p
              /\ call[p].id \in 1..Len(wcalls)
              /\ wcalls[call[p].id] \in SendLines
              /\ \A q \in Procs \ {p} : call[q].id # call[p].id
    /\ \A id \in 1..Len(wcalls) : wcalls[id] \in SendLines \cup WriteArgs
    /\ Len(wcalls) <= ncalls
    /\ ret.op = "Send" =>
          /\ ret.ok <=> ret.err = "nil"
          /\ ret.ok => ret.n \in {Len(line) : line \in SendLines}
          /\ ~ret.ok => ret.err \in {"closed", "broken"}

\* a Send returned nil after its line went out whole in one stream write
C12_Witness ==
    /\ ret.op = "Send" /\ ret.ok
    /\ \E id \in 1..Len(wcalls) :
          /\ wcalls[id] = <<"a", "\r", "\n">>
          /\ BytesOf(wire, id) = wcalls[id]

\* a mutex is held by exactly the goroutine that is between its Lock and its
\* deferred Unlock
LocksMatchCalls ==
    /\ \A p \in Procs : mu["rl"] = p <=> pc[p] = "rRead"
    /\ \A p \in Procs : mu["wl"] = p <=> pc[p] = "wWrite"
    /\ (\A p \in Procs : call[p].op # "ReadMsg") => mu["rl"] = 0
    /\ (\A p \in Procs : call[p].op \notin {"Write", "Send"}) => mu["wl"] = 0

RECURSIVE StreamLines(_)
StreamLines(s) ==
    IF Index(s, LF) < 0 THEN <<>>
    ELSE <<To(s, Index(s, LF) + 1)>> \o StreamLines(From(s, Index(s, LF) + 1))

\* the successful ReadMsg calls so far returned the first of lines, one each,
\* in order
GotMatches(lines) ==
    /\ Len(got) <= Len(lines)
    /\ \A i \in 1..Len(got) : got[i].line = lines[i]

\* every one of lines was either returned or is still buffered or on its way
NoneLost(lines) == Len(lines) = Len(got) + Len(StreamLines(rdbuf \o incoming))

\* where the i-th returned line would start if nothing was dropped before it
PrevEnd(i) == IF i = 1 THEN 0 ELSE got[i - 1].at + Len(got[i - 1].line)

AfterFirst(s, sep) == IF Index(s, sep) < 0 THEN <<>> ELSE From(s, Index(s, sep) + Len(sep))
BeforeFirst(s, sep) == IF Index(s, sep) < 0 THEN s ELSE To(s, Index(s, sep))

\* the input without its prefix token, and the tail left after the command
AfterPrefix(s) == IF s # <<>> /\ s[1] = ":" THEN AfterFirst(From(s, 1), <<" ">>) ELSE s
AfterCommand(s) == AfterFirst(AfterPrefix(s), <<" ">>)

Spaces(s) == Cardinality({i \in 1..Len(s) : s[i] = " "})

\* params is the part split on every single space
IsSplitOf(params, part) ==
    /\ params # <<>>
    /\ Len(params) = Spaces(part) + 1
    /\ \A i \in 1..Len(params) : Spaces(params[i]) = 0
    /\ Join(params, <<" ">>) = part

\* C15: params is empty exactly when the tail left after the command is empty
\* or begins with ":"; otherwise it is the part of that tail before its first
\* " :" (the whole tail if there is none) split on every single space:
\* non-empty, one element more than the part has spaces, no space in any element.
C15_ParamsExtraction ==
    ppc = "parsed" =>
        /\ msg.Params = <<>> <=>
              (AfterCommand(l) = <<>> \/ AfterCommand(l)[1] = ":")
        /\ msg.Params # <<>> =>
              IsSplitOf(msg.Params, BeforeFirst(AfterCommand(l), <<" ", ":">>))

\* a tail with two consecutive spaces and a " :" has been parsed
C15_Witness ==
    /\ ppc = "parsed"
    /\ l = <<"a", " ", " ", " ", ":">>
    /\ msg.Params = << <<>>, <<>> >>

\* C16: a ReadMsg whose stream read fails before a line feed was seen returns
\* the error and no Message, and the bytes of the unfinished line it had read
\* are gone: they are no longer buffered, and no line returned later begins
\* with them or holds them.
C16_FragmentDiscarded ==
    /\ (ret.op = "ReadMsg" /\ ~ret.ok) =>
          (ret.err # "nil" /\ ret.msg = NewMessage(<<>>))
    /\ \A d \in drops :
          /\ d >= 1 /\ d <= Consumed
          /\ sent[d] # "\n"
          /\ \A i \in 1..Len(got) :
                got[i].at >= d \/ got[i].at + Len(got[i].line) < d

\* "a" was read and dropped by a failed ReadMsg; a later ReadMsg returned the
\* line feed that arrived after it as a line of its own
C16_Witness ==
    /\ 1 \in drops
    /\ sent = <<"a", "\n">>
    /\ got = <<[line |-> <<"\n">>, at |-> 1]>>

\* C17: Close() takes no lock and never waits: any goroutine that is not inside
\* another call can run it at once, whoever holds the read lock or the write
\* lock, and every Close() closes the stream once more.
C17_CloseNeverWaits ==
    /\ \A p \in Procs :
          (pc[p] = "idle" /\ closes < MaxCloses) => ENABLED Close(p)
    /\ ret.op = "Close" => (closes >= 1 /\ (ret.afterClose <=> closes >= 2))
    /\ closes = 0 => (ret.op # "Close" /\ \A p \in Procs : ~call[p].afterClose)

\* the stream was closed twice while a ReadMsg that began before the first
\* Close still held the read lock
C17_Witness ==
    /\ closes = 2
    /\ ret.op = "Close" /\ ret.afterClose
    /\ \E q \in Procs :
          pc[q] = "rRead" /\ mu["rl"] = q /\ ~call[q].afterClose

\* a line as ReadString('\\n') returns it: its only line feed is its last byte
IsReadLine(s) == s # <<>> /\ Index(s, LF) = Len(s) - 1

\* the terminator of such a line: LF, with the CR before it when present
Terminator(s) ==
    IF Len(s) >= 2 /\ s[Len(s) - 1] = "\r" THEN <<"\r", "\n">> ELSE <<"\n">>

EndsWith(s, t) == Len(s) >= Len(t) /\ From(s, Len(s) - Len(t)) = t

NonEmptyAt(fields) == {i \in 1..Len(fields) : fields[i] # <<>>}
LastNonEmpty(fields) ==
    IF NonEmptyAt(fields) = {} THEN <<>>
    ELSE fields[CHOOSE i \in NonEmptyAt(fields) : \A j \in NonEmptyAt(fields) : j <= i]

\* command, params and text of a Message, in line order; the same with the
\* prefix fields before them
ParsedFields(m) == <<m.Command>> \o m.Params \o <<m.Txt>>
AllFields(m) == <<m.Prefix.Name, m.Prefix.User, m.Prefix.Host>> \o ParsedFields(m)

\* the line is a prefix token and nothing else
PrefixOnly(s) == s # <<>> /\ s[1] = ":" /\ Index(s, <<" ">>) < 0

====
